---- MODULE Spec2Model ----
(***************************************************************************)
(* The per-index update pipeline of meilisearch-core: the main store, the  *)
(* documents addition (full and partial), the documents deletion and the   *)
(* re-indexing of all documents, each run inside one write transaction on  *)
(* the main environment M.                                                 *)
(*                                                                         *)
(* A store is a function whose DOMAIN is the set of keys present in it.    *)
(* An Option is a set with at most one element ({} is None).               *)
(* A u64 that wrapped below zero is written as the negative number n that  *)
(* stands for 2^64 + n.                                                    *)
(***************************************************************************)
EXTENDS Integers, Sequences, FiniteSets, TLC

\* ------------------------------------------------------------------ bounds

\* longest batch (documents of an addition, user ids of a deletion)
MaxBatch == 2
\* largest DocumentId the allocator is asked for
MaxDocId == 1
\* largest value the document counter is driven to
MaxCount == 2
\* largest update id the update queue is driven to
MaxUpdateId == 2
\* events the notifier channel holds before a send finds it full
ChannelCap == 1

\* ------------------------------------------------------------------ inputs

UserIds == {"a", "b"}
\* a user id no document ever has
UnknownUserId == "zzz"

\* JSON values: strings (the empty string has no token)
Values == {"", "hello", "world"}

\* the documents the callers send: every one carries the primary key "id"
Documents ==
    {[id |-> u, title |-> "hello"] : u \in UserIds}
    \cup {[id |-> "a", title |-> ""],
          [id |-> "a", body |-> "world"],
          [id |-> "b"]}

RECURSIVE SeqsUpTo(_, _)
SeqsUpTo(S, n) ==
    IF n = 0 THEN {<<>>}
    ELSE LET shorter == SeqsUpTo(S, n - 1)
         IN  shorter \cup {Append(s, x) : s \in {t \in shorter : Len(t) = n - 1}, x \in S}

AdditionBatches == SeqsUpTo(Documents, MaxBatch) \ {<<>>}
DeletionBatches == SeqsUpTo(UserIds \cup {UnknownUserId}, MaxBatch) \ {<<>>}

\* the write that fails with a storage error: "none": no write fails;
\* "main": the first put on the main store that the update reaches fails;
\* "index": the put of documents_addition.rs line 390 fails
FailPoints == {"none", "main", "index"}

\* the build profiles: "debug" checks the u64 arithmetic and panics on
\* overflow, "release" wraps
Builds == {"debug", "release"}

\* ------------------------------------------------------------------ state

VARIABLES
    main,                    \* the main store: key string -> value
    documents_fields,        \* <<DocumentId, FieldId>> -> serialized value
    documents_fields_counts, \* <<DocumentId, IndexedPos>> -> number of words
    postings_lists,          \* word -> set of DocIndex
    docs_words,              \* DocumentId -> set of words
    prefix_postings_lists_cache, \* short prefix -> set of DocIndex
    txn,                     \* the open write transaction on M, if any
    updates,                 \* U: update id -> pending Update
    updates_results,         \* U: update id -> result of a processed update
    notifier,                \* the update events channel
    utxn,                    \* the open write transaction on U, if any
    returned,                \* the update ids finalize returned, in order
    undelivered              \* the returned update ids whose event was dropped

\* the index (environment M) and the update queue (environment U)
ivars == <<main, documents_fields, documents_fields_counts, postings_lists,
           docs_words, prefix_postings_lists_cache, txn>>
qvars == <<updates, updates_results, notifier, utxn, returned, undelivered>>
vars == <<main, documents_fields, documents_fields_counts, postings_lists,
          docs_words, prefix_postings_lists_cache, txn, updates, updates_results, notifier, utxn, returned,
          undelivered>>

\* the committed state of M, as a transaction reads it when it begins
MState ==
    [main |-> main,
     documents_fields |-> documents_fields,
     documents_fields_counts |-> documents_fields_counts,
     postings_lists |-> postings_lists,
     docs_words |-> docs_words,
     prefix_postings_lists_cache |-> prefix_postings_lists_cache]

EmptyStore == [x \in {} |-> 0]

Put(store, k, v) == [x \in DOMAIN store \cup {k} |-> IF x = k THEN v ELSE store[x]]
Remove(store, keys) == [x \in DOMAIN store \ keys |-> store[x]]
\* right-biased merge of two stores
Overlay(old, new) ==
    [x \in DOMAIN old \cup DOMAIN new |-> IF x \in DOMAIN new THEN new[x] ELSE old[x]]

\* the smallest element of a set of numbers
Min(S) == CHOOSE x \in S : \A y \in S : x <= y

\* every order in which the elements of S can be listed
RECURSIVE Orders(_)
Orders(S) ==
    IF S = {} THEN {<<>>}
    ELSE UNION {{<<x>> \o o : o \in Orders(S \ {x})} : x \in S}

\* sdset::SetBuf::from_dirty: sort and deduplicate
from_dirty(vec) == {vec[i] : i \in DOMAIN vec}

\* ------------------------------------------------------------------ store/main.rs

SCHEMA_KEY == "schema"
USER_IDS_KEY == "user-ids"
INTERNAL_IDS_KEY == "internal-ids"
WORDS_KEY == "words"
RANKED_MAP_KEY == "ranked-map"
NUMBER_OF_DOCUMENTS_KEY == "number-of-documents"

PutMain(st, k, v) == [st EXCEPT !.main = Put(st.main, k, v)]

\* mutant of schema: a missing schema read as a default one
schema_or_default(st) ==
    IF SCHEMA_KEY \in DOMAIN st.main THEN {st.main[SCHEMA_KEY]}
    ELSE {[primary_key |-> {"id"}, fields |-> {"id"}, indexed |-> {}, ranked |-> {},
           accept_new_fields |-> TRUE]}

\* Main::clear: every key of the main store is removed
clear(st) == [st EXCEPT !.main = EmptyStore]

schema(st) == IF SCHEMA_KEY \in DOMAIN st.main THEN {st.main[SCHEMA_KEY]} ELSE {}
put_schema(st, s) == PutMain(st, SCHEMA_KEY, s)
delete_schema(st) == [st EXCEPT !.main = Remove(@, {SCHEMA_KEY})]

user_ids(st) ==
    IF USER_IDS_KEY \in DOMAIN st.main THEN st.main[USER_IDS_KEY] ELSE EmptyStore

internal_ids(st) ==
    IF INTERNAL_IDS_KEY \in DOMAIN st.main THEN st.main[INTERNAL_IDS_KEY] ELSE {}
put_internal_ids(st, ids) == PutMain(st, INTERNAL_IDS_KEY, ids)
merge_internal_ids(st, new_ids) == put_internal_ids(st, internal_ids(st) \cup new_ids)
remove_internal_ids(st, ids) == put_internal_ids(st, internal_ids(st) \ ids)

put_user_ids(st, ids) == PutMain(st, USER_IDS_KEY, ids)

\* the order in which the union of the fst crate lists the values that its
\* streams hold for one key; the crate is no part of src, so both orders
\* stand: "stream" lists the value of the stored map (stream 0) first,
\* "output" lists the smaller value first
UnionOrders == {"stream", "output"}

\* values[0] of a key that both streams of the union hold
first_value(old_value, new_value, order) ==
    IF order = "stream" \/ old_value <= new_value THEN old_value ELSE new_value

\* fst union of the stored map (stream 0) and new_ids (stream 1), keeping
\* values[0] of every key
merge_user_ids(st, new_ids, order) ==
    LET old == user_ids(st)
        merged == [u \in DOMAIN old \cup DOMAIN new_ids |->
                      IF u \notin DOMAIN new_ids THEN old[u]
                      ELSE IF u \notin DOMAIN old THEN new_ids[u]
                      ELSE first_value(old[u], new_ids[u], order)]
    IN  PutMain(st, USER_IDS_KEY, merged)

\* fst difference: the keys of the stored map that are no key of ids
remove_user_ids(st, ids) ==
    PutMain(st, USER_IDS_KEY, Remove(user_ids(st), DOMAIN ids))

words_fst(st) == IF WORDS_KEY \in DOMAIN st.main THEN {st.main[WORDS_KEY]} ELSE {}
put_words_fst(st, fst) == PutMain(st, WORDS_KEY, fst)

ranked_map(st) ==
    IF RANKED_MAP_KEY \in DOMAIN st.main THEN {st.main[RANKED_MAP_KEY]} ELSE {}
put_ranked_map(st, rm) == PutMain(st, RANKED_MAP_KEY, rm)

number_of_documents(st) ==
    IF NUMBER_OF_DOCUMENTS_KEY \in DOMAIN st.main
    THEN st.main[NUMBER_OF_DOCUMENTS_KEY] ELSE 0
\* put_number_of_documents(f): new is f(old), computed by the caller
put_number_of_documents(st, new) == PutMain(st, NUMBER_OF_DOCUMENTS_KEY, new)

\* ------------------------------------------------------------------ meilisearch-schema

\* a Schema: primary_key (Option), the interned fields, the indexed fields,
\* the ranked fields and whether a field new to the schema becomes indexed.
\* A FieldId is written as the name it interns, an IndexedPos as the name of
\* its field.
primary_key(s) == s.primary_key
is_indexed(s, field_id) == IF field_id \in s.indexed THEN {field_id} ELSE {}
is_ranked(s, field_id) == field_id \in s.ranked
ranked(s) == s.ranked

\* interns name; a name new to the schema becomes indexed when the schema
\* accepts new fields
insert_and_index(s, name) ==
    IF name \in s.fields THEN s
    ELSE [s EXCEPT !.fields = @ \cup {name},
                   !.indexed = IF s.accept_new_fields THEN @ \cup {name} ELSE @]

RECURSIVE insert_and_index_all(_, _)
insert_and_index_all(s, names) ==
    IF names = {} THEN s
    ELSE LET n == CHOOSE x \in names : TRUE
         IN  insert_and_index_all(insert_and_index(s, n), names \ {n})

\* ------------------------------------------------------------------ serde_json, tokenizer

\* serde_json::to_vec / from_slice: the JSON text of a string value
to_vec(value) == <<"\"", value, "\"">>
from_slice(bytes) == bytes[2]

\* the words RawIndexer::index_text finds in a value
Tokens(value) == IF value = "" THEN <<>> ELSE <<value>>

\* update::helpers::index_value: the number of words indexed, None for none
index_value(value) == IF Len(Tokens(value)) = 0 THEN {} ELSE {Len(Tokens(value))}

\* update::helpers::value_to_number(value).unwrap_or_default(): no value of
\* Values parses as a number
value_to_number(value) == 0

\* ------------------------------------------------------------------ update::compute_short_prefixes

\* the prefixes of one and two bytes of a word
ShortPrefixes(word) ==
    CASE word = "hello" -> {"h", "he"}
      [] word = "world" -> {"w", "wo"}
      [] OTHER -> {}

\* the prefix cache of a words fst and a postings store: under every short
\* prefix of a word of the fst, the union of the postings lists of the words
\* of the fst that start with it
PrefixCacheOf(words, store) ==
    [p \in UNION {ShortPrefixes(w) : w \in words} |->
        UNION {IF w \in DOMAIN store THEN store[w] ELSE {} :
               w \in {x \in words : p \in ShortPrefixes(x)}}]

\* update::compute_short_prefixes: the cache is cleared and rebuilt from the
\* words fst and the postings lists the transaction holds; nothing is done
\* when the main store holds no words fst
compute_short_prefixes(st) ==
    IF words_fst(st) = {} THEN st
    ELSE [st EXCEPT !.prefix_postings_lists_cache =
             PrefixCacheOf(CHOOSE ws \in words_fst(st) : TRUE, st.postings_lists)]

\* ------------------------------------------------------------------ documents_deletion.rs

\* the fields stored under a document id
FieldsOf(store, id) == {k \in DOMAIN store : k[1] = id}

\* mutant of deletion_ids: a user id that user_ids does not know resolves to
\* the default DocumentId
deletion_ids_default(st, deletion) ==
    LET new_user_ids == from_dirty(deletion)
        old == user_ids(st)
    IN  [user_ids |-> [u \in new_user_ids |-> 0],
         internal_ids |-> {IF u \in DOMAIN old THEN old[u] ELSE 0 : u \in new_user_ids}]

\* lines 76-89: the user ids to remove and the internal ids they resolve to
deletion_ids(st, deletion) ==
    LET new_user_ids == from_dirty(deletion)
        old == user_ids(st)
    IN  [user_ids |-> [u \in new_user_ids |-> 0],
         internal_ids |-> {old[u] : u \in new_user_ids \cap DOMAIN old}]

\* mutant of remove_ranked: no entry is removed
remove_ranked_none(rm, ids, ranked_fields) == rm

\* lines 111-116: ranked_map.remove(id, ranked_attr) for every id and ranked field
remove_ranked(rm, ids, ranked_fields) ==
    Remove(rm, {<<id, f>> : id \in ids, f \in ranked_fields})

\* lines 110-127: word -> the ids of the deleted documents that list the word
\* in their doc_words
words_document_ids(st, ids) ==
    LET known == ids \cap DOMAIN st.docs_words
        words == UNION {st.docs_words[id] : id \in known}
    IN  [w \in words |-> {id \in known : w \in st.docs_words[id]}]

\* mutant of DifferenceByKey: no record of the list is kept
DifferenceByKey_none(matches, document_ids) == {}

\* line 135: sdset DifferenceByKey on document_id
DifferenceByKey(matches, document_ids) ==
    {m \in matches : m.document_id \notin document_ids}

\* mutant of removed_words: the emptied words are not collected
removed_words_none(st, wdi) == {}

\* lines 134-144: the words whose postings list becomes empty
removed_words(st, wdi) ==
    {w \in DOMAIN wdi \cap DOMAIN st.postings_lists :
        DifferenceByKey(st.postings_lists[w], wdi[w]) = {}}

\* mutant of prune_postings_lists: the postings lists are left as stored
prune_postings_lists_untouched(st, wdi) == st.postings_lists

\* lines 134-144: put the pruned postings lists, delete the emptied ones
prune_postings_lists(st, wdi) ==
    LET emptied == removed_words(st, wdi)
    IN  [w \in DOMAIN st.postings_lists \ emptied |->
            IF w \in DOMAIN wdi
            THEN DifferenceByKey(st.postings_lists[w], wdi[w])
            ELSE st.postings_lists[w]]

\* lines 146-151: the documents whose fields and field counts are deleted:
\* the ones reached through a word of words_document_ids
documents_to_clear(st, ids, wdi) == UNION {wdi[w] : w \in DOMAIN wdi}

\* lines 148-150: the documents counted as deleted (some field was stored)
deleted_documents(st, cleared) ==
    {id \in cleared : FieldsOf(st.documents_fields, id) # {}}

\* lines 131-152: the loop over words_document_ids
delete_postings_and_fields(st, ids, wdi) ==
    LET cleared == documents_to_clear(st, ids, wdi)
    IN  [st EXCEPT
            !.postings_lists = prune_postings_lists(st, wdi),
            !.documents_fields_counts =
                Remove(@, UNION {FieldsOf(st.documents_fields_counts, id) : id \in cleared}),
            !.documents_fields =
                Remove(@, UNION {FieldsOf(st.documents_fields, id) : id \in cleared})]

\* lines 159-175: the words fst without the removed words
words_after_deletion(st, removed) ==
    IF words_fst(st) = {} THEN {}
    ELSE (CHOOSE ws \in words_fst(st) : TRUE) \ removed

\* lines 177-183: the writes to the main store. fail = "main": the put of
\* line 177 fails with a storage error. Line 179 subtracts on u64: when
\* deleted_documents_len exceeds the stored counter the debug build panics
\* there, after the writes of lines 177-178; the release build wraps, and the
\* negative number old - deleted_documents_len stands for the wrapped value
\* 2^64 + old - deleted_documents_len. A stored counter that is negative is
\* such a wrapped value, far above deleted_documents_len: no build panics.
deletion_main_writes(st, words, rm, deleted_documents_len, ids, fail, profile) ==
    LET s1 == put_words_fst(st, words)
        s2 == put_ranked_map(s1, rm)
        s3 == put_number_of_documents(s2, number_of_documents(s2) - deleted_documents_len)
        s4 == remove_user_ids(s3, ids.user_ids)
    IN  IF fail = "main" THEN [result |-> "Storage", st |-> st]
        ELSE IF /\ number_of_documents(s2) >= 0
                /\ deleted_documents_len > number_of_documents(s2)
                /\ profile = "debug"
        THEN [result |-> "Panic", st |-> s2]
        ELSE [result |-> "Ok", st |-> remove_internal_ids(s4, ids.internal_ids)]

\* mutant of apply_documents_deletion: the prefix cache is not recomputed
apply_documents_deletion_stale_prefixes(st, deletion, fail, profile) ==
    LET ids == deletion_ids(st, deletion)
        s == CHOOSE x \in schema(st) : TRUE
        rm0 == IF ranked_map(st) = {} THEN EmptyStore
               ELSE CHOOSE x \in ranked_map(st) : TRUE
        rm == remove_ranked(rm0, ids.internal_ids, ranked(s))
        wdi == words_document_ids(st, ids.internal_ids)
        removed == removed_words(st, wdi)
        deleted == deleted_documents(st, documents_to_clear(st, ids.internal_ids, wdi))
        s1 == delete_postings_and_fields(st, ids.internal_ids, wdi)
        s2 == [s1 EXCEPT !.docs_words = Remove(@, deleted)]
        written == deletion_main_writes(s2, words_after_deletion(s2, removed), rm,
                                        Cardinality(deleted), ids, fail, profile)
    IN  IF schema(st) = {} THEN [result |-> "SchemaMissing", st |-> st]
        ELSE written

\* lines 70-188
apply_documents_deletion(st, deletion, fail, profile) ==
    LET ids == deletion_ids(st, deletion)
        s == CHOOSE x \in schema(st) : TRUE
        rm0 == IF ranked_map(st) = {} THEN EmptyStore
               ELSE CHOOSE x \in ranked_map(st) : TRUE
        rm == remove_ranked(rm0, ids.internal_ids, ranked(s))
        wdi == words_document_ids(st, ids.internal_ids)
        removed == removed_words(st, wdi)
        deleted == deleted_documents(st, documents_to_clear(st, ids.internal_ids, wdi))
        s1 == delete_postings_and_fields(st, ids.internal_ids, wdi)
        s2 == [s1 EXCEPT !.docs_words = Remove(@, deleted)]
        written == deletion_main_writes(s2, words_after_deletion(s2, removed), rm,
                                        Cardinality(deleted), ids, fail, profile)
    IN  IF schema(st) = {} THEN [result |-> "SchemaMissing", st |-> st]
        ELSE IF written.result # "Ok" THEN written
        ELSE [result |-> "Ok", st |-> compute_short_prefixes(written.st)]

\* ------------------------------------------------------------------ store::DiscoverIds

\* the fresh ids, ascending, of the complement of ids: a cursor starting at 0
DiscoverIds_new(ids) == [ids |-> ids, cursor |-> 0]

RECURSIVE DiscoverIds_peek(_)
DiscoverIds_peek(available) ==
    IF available.cursor \in available.ids
    THEN DiscoverIds_peek([available EXCEPT !.cursor = @ + 1])
    ELSE available.cursor

DiscoverIds_next(available) ==
    [available EXCEPT !.cursor = DiscoverIds_peek(available) + 1]

\* ------------------------------------------------------------------ documents_addition.rs

\* update::helpers::extract_document_id: the user id is the value of the
\* primary key; a user id of user_ids keeps its DocumentId, any other one
\* consumes the next available id
extract_document_id(pk, document, uids, available) ==
    LET userid == document[pk]
    IN  IF userid \in DOMAIN uids
        THEN [document_id |-> uids[userid], userid |-> userid, available |-> available]
        ELSE [document_id |-> DiscoverIds_peek(available), userid |-> userid,
              available |-> DiscoverIds_next(available)]

\* DocumentsFields::document_fields, decoded: field -> value
document_fields(st, document_id) ==
    [f \in {k[2] : k \in FieldsOf(st.documents_fields, document_id)} |->
        from_slice(st.documents_fields[<<document_id, f>>])]

\* lines 175-183: the document the Deserializer reads back from
\* documents_fields, None when no field is stored
old_document(st, document_id) ==
    IF FieldsOf(st.documents_fields, document_id) = {} THEN {}
    ELSE {document_fields(st, document_id)}

\* mutant of merge_old_document: the old value wins on a colliding key
merge_old_document_old_wins(document, old) ==
    IF old = {} THEN document
    ELSE Overlay(document, CHOOSE o \in old : TRUE)

\* lines 184-188: document.entry(key).or_insert(value) for every old field
merge_old_document(document, old) ==
    IF old = {} THEN document
    ELSE Overlay(CHOOSE o \in old : TRUE, document)

\* lines 169-191: one turn of the loop over new_documents
resolve_document(st, pk, uids, partial, acc, document) ==
    LET e == extract_document_id(pk, document, uids, acc.available_ids)
        merged == IF partial
                  THEN merge_old_document(document, old_document(st, e.document_id))
                  ELSE document
    IN  [available_ids |-> e.available,
         new_user_ids |-> Put(acc.new_user_ids, e.userid, e.document_id),
         new_internal_ids |-> Append(acc.new_internal_ids, e.document_id),
         documents_additions |-> Put(acc.documents_additions, e.document_id, merged)]

RECURSIVE resolve_documents(_, _, _, _, _, _, _)
resolve_documents(st, pk, uids, partial, acc, new_documents, i) ==
    IF i > Len(new_documents) THEN acc
    ELSE resolve_documents(st, pk, uids, partial,
                           resolve_document(st, pk, uids, partial, acc, new_documents[i]),
                           new_documents, i + 1)

\* mutant of available_ids: the allocator is not seeded with the live ids
available_ids_unseeded(st) == DiscoverIds_new({})

\* lines 163-164: the allocator seeded with the stored internal ids
available_ids(st) == DiscoverIds_new(internal_ids(st))

\* lines 152-154, 162-191: the loop over new_documents, from empty
\* documents_additions, new_user_ids and new_internal_ids
resolution(st, pk, new_documents, partial) ==
    resolve_documents(st, pk, user_ids(st), partial,
                      [available_ids |-> available_ids(st),
                       new_user_ids |-> EmptyStore,
                       new_internal_ids |-> <<>>,
                       documents_additions |-> EmptyStore],
                      new_documents, 1)

\* lines 193-196: the documents ids handed to apply_documents_deletion, which
\* resolves what it is given through user_ids: the ids of documents_additions
\* that user_ids knows, named by their user ids
documents_ids(documents_additions) == Orders(DOMAIN documents_additions)

\* line 196 hands these DocumentIds to apply_documents_deletion, which takes
\* user ids: the deletion of the prior versions is the deletion of the user
\* ids that user_ids maps to one of them
prior_versions(st, ids) ==
    CHOOSE deletion \in Orders({u \in DOMAIN user_ids(st) : user_ids(st)[u] \in from_dirty(ids)}) : TRUE

\* RawIndexer: one DocIndex per word of an indexed field
DocIndexes(s, documents, word) ==
    UNION {{[document_id |-> t[1], attribute |-> t[2], word_index |-> i - 1] :
               i \in {j \in DOMAIN Tokens(documents[t[1]][t[2]]) :
                          Tokens(documents[t[1]][t[2]])[j] = word}} :
           t \in {x \in (DOMAIN documents) \X s.indexed : x[2] \in DOMAIN documents[x[1]]}}

WordsOfDocument(s, document) ==
    UNION {from_dirty(Tokens(document[f])) : f \in DOMAIN document \cap s.indexed}

\* RawIndexer::build: words_doc_indexes and docs_words of the indexed values
build(s, documents) ==
    LET words == UNION {WordsOfDocument(s, documents[id]) : id \in DOMAIN documents}
        with_words == {id \in DOMAIN documents : WordsOfDocument(s, documents[id]) # {}}
    IN  [words_doc_indexes |-> [w \in words |-> DocIndexes(s, documents, w)],
         docs_words |-> [id \in with_words |-> WordsOfDocument(s, documents[id])]]

\* lines 123-124: put_document_field of every field of every document
put_document_fields(store, documents) ==
    LET keys == {k \in (DOMAIN documents) \X (UNION {DOMAIN documents[d] : d \in DOMAIN documents}) :
                    k[2] \in DOMAIN documents[k[1]]}
    IN  Overlay(store, [k \in keys |-> to_vec(documents[k[1]][k[2]])])

\* lines 126-136: put_document_field_count of every indexed field whose value
\* has words, the count cast to u16
put_document_fields_counts(store, s, documents) ==
    LET keys == {k \in (DOMAIN documents) \X s.indexed :
                    k[2] \in DOMAIN documents[k[1]] /\ index_value(documents[k[1]][k[2]]) # {}}
    IN  Overlay(store, [k \in keys |->
            (CHOOSE n \in index_value(documents[k[1]][k[2]]) : TRUE) % 65536])

\* lines 138-141: ranked_map.insert for every ranked field
insert_ranked(rm, s, documents) ==
    LET keys == {k \in (DOMAIN documents) \X s.ranked : k[2] \in DOMAIN documents[k[1]]}
    IN  Overlay(rm, [k \in keys |-> value_to_number(documents[k[1]][k[2]])])

\* lines 111-144, for every field of every document (the loop of lines 216-233
\* and of lines 306-327); s is the schema with every attribute interned
index_documents(st, s, documents) ==
    [st EXCEPT
        !.documents_fields = put_document_fields(@, documents),
        !.documents_fields_counts = put_document_fields_counts(@, s, documents)]

\* mutant of merge_postings_lists: the delta replaces the stored list
merge_postings_lists_overwrite(store, words_doc_indexes) ==
    Overlay(store, words_doc_indexes)

\* lines 353-362: union of the stored postings list and the delta of each word
merge_postings_lists(store, words_doc_indexes) ==
    Overlay(store,
            [w \in DOMAIN words_doc_indexes |->
                IF w \in DOMAIN store THEN store[w] \cup words_doc_indexes[w]
                ELSE words_doc_indexes[w]])

\* lines 368-388: union of the stored words fst and the delta words
words_after_addition(st, delta_words) ==
    IF words_fst(st) = {} THEN delta_words
    ELSE (CHOOSE ws \in words_fst(st) : TRUE) \cup delta_words

\* mutant of addition_main_writes: the inserted documents are not counted
addition_main_writes_uncounted(st, words, rm, number_of_inserted_documents, profile) ==
    LET s1 == put_words_fst(st, words)
        s2 == put_ranked_map(s1, rm)
    IN  [result |-> "Ok", st |-> put_number_of_documents(s2, number_of_documents(s2))]

\* lines 390-392: the writes to the main store. A negative counter stands
\* for the u64 that many below 2^64, so the sum of line 392 overflows when
\* it reaches 0 from below: a debug build panics there, with lines 390-391
\* written, and a release build wraps.
addition_main_writes(st, words, rm, number_of_inserted_documents, profile) ==
    LET s1 == put_words_fst(st, words)
        s2 == put_ranked_map(s1, rm)
        old == number_of_documents(s2)
    IN  IF old < 0 /\ old + number_of_inserted_documents >= 0 /\ profile = "debug"
        THEN [result |-> "Panic", st |-> s2]
        ELSE [result |-> "Ok",
              st |-> put_number_of_documents(s2, old + number_of_inserted_documents)]

\* mutant of write_documents_addition_index: the storage error of the first
\* write to the main store is dropped and the function returns Ok
write_documents_addition_index_unchecked(st, rm, number_of_inserted_documents, indexed, fail, profile) ==
    LET s1 == [st EXCEPT !.postings_lists = merge_postings_lists(@, indexed.words_doc_indexes)]
        s2 == [s1 EXCEPT !.docs_words = Overlay(@, indexed.docs_words)]
        s3 == addition_main_writes(s2, words_after_addition(s2, DOMAIN indexed.words_doc_indexes),
                                   rm, number_of_inserted_documents, profile)
    IN  IF fail \in {"main", "index"} THEN [result |-> "Ok", st |-> s2]
        ELSE IF s3.result # "Ok" THEN s3
        ELSE [result |-> "Ok", st |-> compute_short_prefixes(s3.st)]

\* lines 343-397. fail = "main" or "index": the put of line 390, the first
\* write of this function to the main store, fails with a storage error.
write_documents_addition_index(st, rm, number_of_inserted_documents, indexed, fail, profile) ==
    LET s1 == [st EXCEPT !.postings_lists = merge_postings_lists(@, indexed.words_doc_indexes)]
        s2 == [s1 EXCEPT !.docs_words = Overlay(@, indexed.docs_words)]
        s3 == addition_main_writes(s2, words_after_addition(s2, DOMAIN indexed.words_doc_indexes),
                                   rm, number_of_inserted_documents, profile)
    IN  IF fail \in {"main", "index"} THEN [result |-> "Storage", st |-> s2]
        ELSE IF s3.result # "Ok" THEN s3
        ELSE [result |-> "Ok", st |-> compute_short_prefixes(s3.st)]

\* lines 243-248: put_schema, merge_user_ids, merge_internal_ids
addition_ids_writes(st, s, new_user_ids, new_internal_ids, order) ==
    merge_internal_ids(merge_user_ids(put_schema(st, s), new_user_ids, order),
                       from_dirty(new_internal_ids))

\* lines 146-251. The deletion of line 196 is the first to write to the main
\* store (documents_deletion.rs line 177). Whatever order line 195 collects
\* the ids in, the deletion is the same: it sorts what it is given. Whatever
\* order the union of line 246 lists values in, the merge is the same: the
\* user ids of new_user_ids are those that user_ids did not hold.
apply_addition(st, new_documents, partial, fail, profile) ==
    LET s0 == CHOOSE x \in schema(st) : TRUE
        pk == CHOOSE x \in primary_key(s0) : TRUE
        acc == resolution(st, pk, new_documents, partial)
        documents == acc.documents_additions
        number_of_inserted_documents == Cardinality(DOMAIN documents)
        deletion == CHOOSE d \in {apply_documents_deletion(st, prior_versions(st, ids), fail, profile) :
                                     ids \in documents_ids(documents)} : TRUE
        rm0 == IF ranked_map(deletion.st) = {} THEN EmptyStore
               ELSE CHOOSE x \in ranked_map(deletion.st) : TRUE
        s == insert_and_index_all(s0, UNION {DOMAIN documents[id] : id \in DOMAIN documents})
        s1 == index_documents(deletion.st, s, documents)
        rm == insert_ranked(rm0, s, documents)
        written == write_documents_addition_index(s1, rm, number_of_inserted_documents,
                                                  build(s, documents), fail, profile)
    IN  IF schema(st) = {} THEN [result |-> "SchemaMissing", st |-> st]
        ELSE IF primary_key(s0) = {} THEN [result |-> "MissingPrimaryKey", st |-> st]
        ELSE IF deletion.result # "Ok" THEN deletion
        ELSE IF written.result # "Ok" THEN written
        ELSE [result |-> "Ok",
              st |-> CHOOSE merged \in {addition_ids_writes(written.st, s, acc.new_user_ids,
                                                            acc.new_internal_ids, order) :
                                            order \in UnionOrders} : TRUE]

\* lines 253-259
apply_documents_partial_addition(st, new_documents, fail, profile) ==
    apply_addition(st, new_documents, TRUE, fail, profile)

\* lines 261-267
apply_documents_addition(st, new_documents, fail, profile) ==
    apply_addition(st, new_documents, FALSE, fail, profile)

\* lines 284-290: empty words fst, default ranked map, counter 0, postings
\* lists and docs words cleared
clear_index(st) ==
    LET s1 == put_words_fst(st, {})
        s2 == put_ranked_map(s1, EmptyStore)
        s3 == put_number_of_documents(s2, 0)
    IN  [s3 EXCEPT !.postings_lists = EmptyStore, !.docs_words = EmptyStore]

\* lines 277-282: the ids DocumentsFieldsCounts::documents_ids yields
documents_ids_to_reindex(st) == {k[1] : k \in DOMAIN st.documents_fields_counts}

\* lines 269-341. fail = "main": the put of line 285, the first write to the
\* main store, fails with a storage error before anything is written.
reindex_all_documents(st, fail, profile) ==
    LET s == CHOOSE x \in schema(st) : TRUE
        ids == documents_ids_to_reindex(st)
        s1 == clear_index(st)
        documents == [id \in ids |-> document_fields(s1, id)]
        s2 == index_documents(s1, s, documents)
        rm == insert_ranked(EmptyStore, s, documents)
        written == write_documents_addition_index(s2, rm, Cardinality(ids),
                                                  build(s, documents), fail, profile)
    IN  IF schema(st) = {} THEN [result |-> "SchemaMissing", st |-> st]
        ELSE IF fail = "main" THEN [result |-> "Storage", st |-> st]
        ELSE IF written.result # "Ok" THEN written
        ELSE [result |-> "Ok", st |-> put_schema(written.st, s)]

\* ------------------------------------------------------------------ the update task

Update(type, documents, deletion) ==
    [type |-> type, documents |-> documents, deletion |-> deletion]

\* the schema of an index whose settings name the primary key "id", index and
\* rank "title" and accept new fields
InitialSchema ==
    [primary_key |-> {"id"}, fields |-> {"id", "title"}, indexed |-> {"title"},
     ranked |-> {"title"}, accept_new_fields |-> TRUE]

\* a schema that has no primary key yet
SchemaWithoutPrimaryKey ==
    [primary_key |-> {}, fields |-> {}, indexed |-> {}, ranked |-> {},
     accept_new_fields |-> TRUE]

\* ------------------------------------------------------------------ the update queue

\* the committed state of U, as a transaction reads it when it begins
UState == [updates |-> updates, updates_results |-> updates_results]

\* the batches the callers finalize
QueueAdditions == {<<[id |-> "a", title |-> "hello"]>>}
QueueDeletions == {<<"a">>}

\* the write that fails with a storage error ("none": no failure)
QueueFailPoints == {"none", "put_update"}

Max(S) == CHOOSE x \in S : \A y \in S : y <= x

\* store::Updates::last_update / store::UpdatesResults::last_update: the
\* greatest key, None on an empty store
last_update(store) == IF DOMAIN store = {} THEN {} ELSE {Max(DOMAIN store)}

\* update::next_update_id: one more than the greatest id of both stores, 0
\* when both are empty
next_update_id(w) ==
    LET last == last_update(w.updates) \cup last_update(w.updates_results)
    IN  IF last = {} THEN 0 ELSE Max(last) + 1

\* store::Updates::put_update
put_update(w, update_id, update) ==
    [w EXCEPT !.updates = Put(@, update_id, update)]

\* UpdateEventsEmitter::send of one event, not blocking: the event is queued
\* when the receiver is there and the channel has room, dropped otherwise
send(n) ==
    IF n.connected /\ n.events < ChannelCap
    THEN [result |-> "Ok", notifier |-> [n EXCEPT !.events = @ + 1]]
    ELSE [result |-> "Err", notifier |-> n]

\* lines 91-96: every document through serde_json::to_vec and from_slice
serialized_values(addition) ==
    [i \in DOMAIN addition |->
        [f \in DOMAIN addition[i] |-> from_slice(to_vec(addition[i][f]))]]

\* mutant of push_documents_addition: the update id is the number of pending
\* updates
push_documents_addition_pending_count(w, addition, is_partial, fail) ==
    LET last_update_id == Cardinality(DOMAIN w.updates)
        update == IF is_partial
                  THEN Update("DocumentsPartialAddition", serialized_values(addition), <<>>)
                  ELSE Update("DocumentsAddition", serialized_values(addition), <<>>)
    IN  IF fail = "put_update" THEN [result |-> "Storage", update_id |-> last_update_id, w |-> w]
        ELSE [result |-> "Ok", update_id |-> last_update_id,
              w |-> put_update(w, last_update_id, update)]

\* documents_addition.rs lines 84-109. fail = "put_update": the write of
\* line 106 fails with a storage error.
push_documents_addition(w, addition, is_partial, fail) ==
    LET last_update_id == next_update_id(w)
        update == IF is_partial
                  THEN Update("DocumentsPartialAddition", serialized_values(addition), <<>>)
                  ELSE Update("DocumentsAddition", serialized_values(addition), <<>>)
    IN  IF fail = "put_update" THEN [result |-> "Storage", update_id |-> last_update_id, w |-> w]
        ELSE [result |-> "Ok", update_id |-> last_update_id,
              w |-> put_update(w, last_update_id, update)]

\* documents_deletion.rs lines 56-68. fail = "put_update": the write of line
\* 65 fails with a storage error.
push_documents_deletion(w, deletion, fail) ==
    LET last_update_id == next_update_id(w)
        update == Update("DocumentsDeletion", <<>>, deletion)
    IN  IF fail = "put_update" THEN [result |-> "Storage", update_id |-> last_update_id, w |-> w]
        ELSE [result |-> "Ok", update_id |-> last_update_id,
              w |-> put_update(w, last_update_id, update)]

\* documents_addition.rs lines 62-75: the event is sent and its result
\* dropped, then the update is pushed
DocumentsAddition_finalize(w, n, documents, is_partial, fail) ==
    LET sent == send(n)
        pushed == push_documents_addition(w, documents, is_partial, fail)
    IN  [result |-> pushed.result, update_id |-> pushed.update_id, w |-> pushed.w,
         notifier |-> sent.notifier, delivered |-> sent.result = "Ok"]

\* mutant of DocumentsDeletion_finalize: the error of the send is returned
DocumentsDeletion_finalize_send_checked(w, n, documents, fail) ==
    LET sent == send(n)
        pushed == push_documents_deletion(w, documents, fail)
    IN  IF sent.result # "Ok"
        THEN [result |-> "Send", update_id |-> pushed.update_id, w |-> w,
              notifier |-> sent.notifier, delivered |-> FALSE]
        ELSE [result |-> pushed.result, update_id |-> pushed.update_id, w |-> pushed.w,
              notifier |-> sent.notifier, delivered |-> TRUE]

\* documents_deletion.rs lines 38-47
DocumentsDeletion_finalize(w, n, documents, fail) ==
    LET sent == send(n)
        pushed == push_documents_deletion(w, documents, fail)
    IN  [result |-> pushed.result, update_id |-> pushed.update_id, w |-> pushed.w,
         notifier |-> sent.notifier, delivered |-> sent.result = "Ok"]

QueueInit ==
    /\ updates = EmptyStore
    /\ updates_results = EmptyStore
    /\ notifier = [events |-> 0, connected |-> TRUE]
    /\ utxn = {}
    /\ returned = <<>>
    /\ undelivered = {}

\* the caller opens a write transaction on U and finalizes its batch in it
Finalize(finalized, fail) ==
    /\ utxn = {}
    /\ finalized.update_id <= MaxUpdateId
    /\ utxn' = {[result |-> finalized.result, update_id |-> finalized.update_id,
                 writer |-> finalized.w, delivered |-> finalized.delivered,
                 fail |-> fail]}
    /\ notifier' = finalized.notifier
    /\ UNCHANGED <<updates, updates_results, returned, undelivered>>
    /\ UNCHANGED ivars

AdditionFinalize ==
    \E documents \in QueueAdditions, is_partial \in BOOLEAN, fail \in QueueFailPoints :
        Finalize(DocumentsAddition_finalize(UState, notifier, documents, is_partial, fail),
                 fail)

DeletionFinalize ==
    \E documents \in QueueDeletions, fail \in QueueFailPoints :
        Finalize(DocumentsDeletion_finalize(UState, notifier, documents, fail), fail)

\* the caller commits the transaction when finalize returned an update id
UCommit ==
    \E t \in utxn :
        /\ t.result = "Ok"
        /\ updates' = t.writer.updates
        /\ updates_results' = t.writer.updates_results
        /\ returned' = Append(returned, t.update_id)
        /\ undelivered' = IF t.delivered THEN undelivered ELSE undelivered \cup {t.update_id}
        /\ utxn' = {}
        /\ UNCHANGED notifier
        /\ UNCHANGED ivars

\* and aborts it otherwise
UAbort ==
    \E t \in utxn :
        /\ t.result # "Ok"
        /\ utxn' = {}
        /\ UNCHANGED <<updates, updates_results, notifier, returned, undelivered>>
        /\ UNCHANGED ivars

\* the consumer takes one event from the channel
Receive ==
    /\ notifier.connected
    /\ notifier.events > 0
    /\ notifier' = [notifier EXCEPT !.events = @ - 1]
    /\ UNCHANGED <<updates, updates_results, utxn, returned, undelivered>>
    /\ UNCHANGED ivars

\* the receiving end of the channel is dropped
Disconnect ==
    /\ notifier.connected
    /\ notifier' = [events |-> 0, connected |-> FALSE]
    /\ UNCHANGED <<updates, updates_results, utxn, returned, undelivered>>
    /\ UNCHANGED ivars

\* the consumer processes the pending update of the smallest id and moves it
\* to the results store
ProcessUpdate ==
    /\ utxn = {}
    /\ DOMAIN updates # {}
    /\ LET update_id == Min(DOMAIN updates)
       IN  /\ updates' = Remove(updates, {update_id})
           /\ updates_results' = Put(updates_results, update_id, "processed")
    /\ UNCHANGED <<notifier, utxn, returned, undelivered>>
    /\ UNCHANGED ivars

UNext ==
    \/ AdditionFinalize
    \/ DeletionFinalize
    \/ UCommit
    \/ UAbort
    \/ Receive
    \/ Disconnect
    \/ ProcessUpdate

UInit ==
    /\ main = Put(EmptyStore, SCHEMA_KEY, InitialSchema)
    /\ documents_fields = EmptyStore
    /\ documents_fields_counts = EmptyStore
    /\ postings_lists = EmptyStore
    /\ docs_words = EmptyStore
    /\ prefix_postings_lists_cache = EmptyStore
    /\ txn = {}
    /\ QueueInit

UpdatesSpec == UInit /\ [][UNext]_vars

Init ==
    /\ main \in {EmptyStore,
                 Put(EmptyStore, SCHEMA_KEY, SchemaWithoutPrimaryKey),
                 Put(EmptyStore, SCHEMA_KEY, InitialSchema)}
    /\ documents_fields = EmptyStore
    /\ documents_fields_counts = EmptyStore
    /\ postings_lists = EmptyStore
    /\ docs_words = EmptyStore
    /\ prefix_postings_lists_cache = EmptyStore
    /\ txn = {}
    /\ QueueInit

WithinBounds(st) ==
    /\ internal_ids(st) \subseteq 0..MaxDocId
    /\ number_of_documents(st) <= MaxCount

\* the update task opens a write transaction on M and applies the update in it
Run(update, applied) ==
    /\ txn = {}
    /\ WithinBounds(applied.st)
    /\ txn' = {[update |-> update, result |-> applied.result, writer |-> applied.st]}
    /\ UNCHANGED <<main, documents_fields, documents_fields_counts, postings_lists,
                   docs_words, prefix_postings_lists_cache>>
    /\ UNCHANGED qvars

DocumentsAddition ==
    \E documents \in AdditionBatches, fail \in FailPoints, profile \in Builds :
        Run(Update("DocumentsAddition", documents, <<>>),
            apply_documents_addition(MState, documents, fail, profile))

DocumentsPartialAddition ==
    \E documents \in AdditionBatches, fail \in FailPoints, profile \in Builds :
        Run(Update("DocumentsPartialAddition", documents, <<>>),
            apply_documents_partial_addition(MState, documents, fail, profile))

DocumentsDeletion ==
    \E deletion \in DeletionBatches, fail \in FailPoints, profile \in Builds :
        Run(Update("DocumentsDeletion", <<>>, deletion),
            apply_documents_deletion(MState, deletion, fail, profile))

ReindexAllDocuments ==
    \E fail \in FailPoints, profile \in Builds :
        Run(Update("Settings", <<>>, <<>>), reindex_all_documents(MState, fail, profile))

\* the transaction is committed when the update succeeded
ShouldCommit(t) == t.result = "Ok"

Commit ==
    \E t \in txn :
        /\ ShouldCommit(t)
        /\ main' = t.writer.main
        /\ documents_fields' = t.writer.documents_fields
        /\ documents_fields_counts' = t.writer.documents_fields_counts
        /\ postings_lists' = t.writer.postings_lists
        /\ docs_words' = t.writer.docs_words
        /\ prefix_postings_lists_cache' = t.writer.prefix_postings_lists_cache
        /\ txn' = {}
        /\ UNCHANGED qvars

\* and aborted otherwise
Abort ==
    \E t \in txn :
        /\ ~ShouldCommit(t)
        /\ txn' = {}
        /\ UNCHANGED <<main, documents_fields, documents_fields_counts, postings_lists,
                       docs_words, prefix_postings_lists_cache>>
        /\ UNCHANGED qvars

Next ==
    \/ DocumentsAddition
    \/ DocumentsPartialAddition
    \/ DocumentsDeletion
    \/ ReindexAllDocuments
    \/ Commit
    \/ Abort

Spec == Init /\ [][Next]_vars

\* ------------------------------------------------------------------ properties

\* what the committed state and a transaction's writer hold
Words(st) == IF words_fst(st) = {} THEN {} ELSE CHOOSE ws \in words_fst(st) : TRUE
RankedMap(st) == IF ranked_map(st) = {} THEN EmptyStore ELSE CHOOSE rm \in ranked_map(st) : TRUE
Postings(st, w) == IF w \in DOMAIN st.postings_lists THEN st.postings_lists[w] ELSE {}

\* the user ids of a batch of documents, and the last document of a user id
BatchUserIds(documents) == {documents[i].id : i \in DOMAIN documents}
LastDocument(documents, u) ==
    documents[CHOOSE i \in DOMAIN documents :
                 /\ documents[i].id = u
                 /\ \A j \in DOMAIN documents : documents[j].id = u => j <= i]

IsAddition(t) == t.update.type = "DocumentsAddition"
IsPartialAddition(t) == t.update.type = "DocumentsPartialAddition"
IsDeletion(t) == t.update.type = "DocumentsDeletion"

\* C1: in every committed state user_ids and internal_ids are bijective: every
\* user id maps to an id of internal_ids, no two user ids map to the same id
\* and every id of internal_ids is the value of a user id.
C1_IdentityBijection ==
    LET uids == user_ids(MState)
    IN  /\ \A u \in DOMAIN uids : uids[u] \in internal_ids(MState)
        /\ \A u, v \in DOMAIN uids : uids[u] = uids[v] => u = v
        /\ \A id \in internal_ids(MState) : \E u \in DOMAIN uids : uids[u] = id

\* C2: in every committed state number_of_documents is the cardinality of
\* internal_ids.
C2_NumberOfDocuments ==
    number_of_documents(MState) = Cardinality(internal_ids(MState))

\* no sub-store of st holds anything of the document id
NoTraceOf(st, id) ==
    /\ FieldsOf(st.documents_fields, id) = {}
    /\ FieldsOf(st.documents_fields_counts, id) = {}
    /\ \A w \in DOMAIN st.postings_lists :
          \A m \in st.postings_lists[w] : m.document_id # id
    /\ id \notin DOMAIN st.docs_words
    /\ FieldsOf(RankedMap(st), id) = {}
    /\ \A u \in DOMAIN user_ids(st) : user_ids(st)[u] # id
    /\ id \notin internal_ids(st)

\* C3: deletion purity: after a successful deletion of a known user id whose
\* document id is d, no sub-store holds d, no word whose postings all belonged
\* to d is left in words_fst, and d is free again (the allocator hands it out).
C3_DeletionPurity ==
    \A t \in txn :
        (IsDeletion(t) /\ t.result = "Ok") =>
            \A u \in from_dirty(t.update.deletion) \cap DOMAIN user_ids(MState) :
                LET d == user_ids(MState)[u]
                IN  /\ NoTraceOf(t.writer, d)
                    /\ \A w \in Words(MState) :
                          (\A m \in Postings(MState, w) : m.document_id = d)
                              => w \notin Words(t.writer)
                    /\ d \notin internal_ids(t.writer)

\* C4: words-FST invariant: in every committed state a word is in words_fst
\* if and only if the postings store holds a non-empty list for it.
C4_WordsFstInvariant ==
    /\ \A w \in Words(MState) : Postings(MState, w) # {}
    /\ \A w \in DOMAIN postings_lists : postings_lists[w] # {} /\ w \in Words(MState)

\* C4 witness: a committed state reached through additions and a deletion
\* (id 0 is free again while id 1 is live) that still holds a word.
C4_Witness ==
    /\ txn = {}
    /\ internal_ids(MState) = {1}
    /\ Words(MState) # {}
    /\ \E w \in Words(MState) : \E m \in Postings(MState, w) : m.document_id = 1

\* C5: partial merge law: after a successful partial addition, the fields
\* stored for a user id that existed before are its previously stored fields
\* overlaid by the fields of its incoming document (the last one of the batch
\* for that user id): absent fields keep the old value, the incoming document
\* wins on every colliding key.
C5_PartialMergeLaw ==
    \A t \in txn :
        (IsPartialAddition(t) /\ t.result = "Ok") =>
            \A u \in BatchUserIds(t.update.documents) \cap DOMAIN user_ids(MState) :
                LET d == user_ids(MState)[u]
                IN  /\ user_ids(t.writer)[u] = d
                    /\ document_fields(t.writer, d) =
                          Overlay(document_fields(MState, d),
                                  LastDocument(t.update.documents, u))

\* C5 witness: a successful partial addition for an existing user id whose
\* stored document has a field the incoming document lacks and another field
\* on which both carry different values.
C5_Witness ==
    \E t \in txn :
        /\ IsPartialAddition(t) /\ t.result = "Ok"
        /\ \E u \in BatchUserIds(t.update.documents) \cap DOMAIN user_ids(MState) :
              LET old == document_fields(MState, user_ids(MState)[u])
                  new == LastDocument(t.update.documents, u)
              IN  /\ Len(t.update.documents) = 1
                  /\ DOMAIN old \ DOMAIN new # {}
                  /\ \E f \in DOMAIN old \cap DOMAIN new : f # "id" /\ old[f] # new[f]

\* C6: idempotence under re-addition: applying the full addition of one
\* document a second time leaves every sub-store as the first application
\* left it.
C6_Idempotence ==
    \A t \in txn :
        (IsAddition(t) /\ t.result = "Ok" /\ Len(t.update.documents) = 1) =>
            LET again == apply_documents_addition(t.writer, t.update.documents, "none", "release")
            IN  again.result = "Ok" /\ again.st = t.writer

\* C7: roundtrip: after a successful full addition, the fields stored under
\* the document id of each user id of the batch are exactly the fields of its
\* document (the last one of the batch for that user id), with their values.
C7_Roundtrip ==
    \A t \in txn :
        (IsAddition(t) /\ t.result = "Ok") =>
            \A u \in BatchUserIds(t.update.documents) :
                /\ u \in DOMAIN user_ids(t.writer)
                /\ document_fields(t.writer, user_ids(t.writer)[u]) =
                      LastDocument(t.update.documents, u)

\* what the update does to a state when no storage error occurs
Applied(st, update) ==
    CASE update.type = "DocumentsAddition" ->
            apply_documents_addition(st, update.documents, "none", "release")
      [] update.type = "DocumentsPartialAddition" ->
            apply_documents_partial_addition(st, update.documents, "none", "release")
      [] update.type = "DocumentsDeletion" ->
            apply_documents_deletion(st, update.deletion, "none", "release")
      [] OTHER -> reindex_all_documents(st, "none", "release")

\* C8: atomicity: the committed state of M changes only by taking, in one
\* step, the state after all the writes of an update that succeeded; an update
\* that fails, also after it has written to some sub-stores, leaves M as it was.
C8_Atomicity ==
    [][MState' # MState =>
          \E t \in txn : /\ Applied(MState, t.update).result = "Ok"
                         /\ MState' = Applied(MState, t.update).st]_vars

\* C8 witness: an addition that failed with a storage error after it had
\* written to sub-stores of its transaction.
C8_Witness ==
    \E t \in txn :
        /\ IsAddition(t) /\ t.result = "Storage"
        /\ t.writer.postings_lists # postings_lists
        /\ t.writer.documents_fields # documents_fields

\* C9: without a schema in the main store an addition, a partial addition and
\* a deletion return SchemaMissing and have written nothing; with a schema
\* that has no primary key an addition returns MissingPrimaryKey and has
\* written nothing.
C9_SchemaMissing ==
    \A t \in txn :
        (IsAddition(t) \/ IsPartialAddition(t) \/ IsDeletion(t)) =>
            /\ SCHEMA_KEY \notin DOMAIN main =>
                  t.result = "SchemaMissing" /\ t.writer = MState
            /\ (SCHEMA_KEY \in DOMAIN main /\ main[SCHEMA_KEY].primary_key = {}
                    /\ ~IsDeletion(t)) =>
                  t.result = "MissingPrimaryKey" /\ t.writer = MState

\* C9 witness: a deletion that returned SchemaMissing.
C9_Witness ==
    \E t \in txn : IsDeletion(t) /\ t.result = "SchemaMissing"

\* the user ids of a deletion that user_ids knows, in the order given
KnownOf(st, deletion) == SelectSeq(deletion, LAMBDA u : u \in DOMAIN user_ids(st))

\* the stores a deletion of unknown user ids must leave alone
SameIndex(a, b) ==
    /\ number_of_documents(a) = number_of_documents(b)
    /\ user_ids(a) = user_ids(b)
    /\ internal_ids(a) = internal_ids(b)
    /\ a.postings_lists = b.postings_lists
    /\ a.docs_words = b.docs_words
    /\ a.documents_fields = b.documents_fields
    /\ Words(a) = Words(b)

\* what C10 says of a deletion t that met no storage error
UnknownIdsSkipped(t) ==
    /\ t.result = "Ok"
    /\ KnownOf(MState, t.update.deletion) = <<>> => SameIndex(t.writer, MState)
    /\ KnownOf(MState, t.update.deletion) # <<>> =>
          t.writer = apply_documents_deletion(MState, KnownOf(MState, t.update.deletion),
                                              "none", "release").st

\* C10 as stated: a deletion of user ids that are not in user_ids returns
\* success and changes nothing; in a mixed list the unknown ids are skipped and
\* only the known ones are deleted.
C10_UnknownDeletionAsStated ==
    \A t \in txn : (IsDeletion(t) /\ t.result # "Storage") => UnknownIdsSkipped(t)

\* C10 amended: the same, when the main store holds a schema.
C10_UnknownDeletion ==
    \A t \in txn :
        (IsDeletion(t) /\ t.result # "Storage" /\ SCHEMA_KEY \in DOMAIN main) =>
            UnknownIdsSkipped(t)

\* C10 witness: a successful deletion of unknown user ids only, on an index
\* that holds documents and words.
C10_Witness ==
    \E t \in txn :
        /\ IsDeletion(t) /\ t.result = "Ok"
        /\ KnownOf(MState, t.update.deletion) = <<>>
        /\ internal_ids(MState) # {}
        /\ Words(MState) # {}

\* the DocumentId each document of the batch of t resolved to, in batch order
ResolvedIds(t) ==
    resolution(MState, CHOOSE pk \in primary_key(CHOOSE s \in schema(MState) : TRUE) : TRUE,
               t.update.documents, IsPartialAddition(t)).new_internal_ids

IsOkAddition(t) == (IsAddition(t) \/ IsPartialAddition(t)) /\ t.result = "Ok"

\* C11: stable identity: every document of an addition or partial addition
\* whose user id is known resolves to the DocumentId user_ids holds for it,
\* every later document of the same user id resolves to the DocumentId the
\* first one resolved to, and after the update user_ids maps the user id to
\* that DocumentId.
C11_StableIdentity ==
    \A t \in txn :
        IsOkAddition(t) =>
            LET docs == t.update.documents
                ids == ResolvedIds(t)
            IN  \A i \in DOMAIN docs :
                    /\ docs[i].id \in DOMAIN user_ids(MState) =>
                          ids[i] = user_ids(MState)[docs[i].id]
                    /\ \A j \in DOMAIN docs :
                          (i < j /\ docs[j].id = docs[i].id) => ids[j] = ids[i]
                    /\ user_ids(t.writer)[docs[i].id] = ids[i]

\* the ids absent from ids, and the k-th smallest of them
FreeIds(ids) == (0..(MaxDocId + MaxBatch)) \ ids
NthFree(ids, k) ==
    CHOOSE x \in FreeIds(ids) : Cardinality({y \in FreeIds(ids) : y < x}) = k - 1

\* the documents of the batch of t whose user id user_ids does not know
FreshPositions(t) ==
    {i \in DOMAIN t.update.documents : t.update.documents[i].id \notin DOMAIN user_ids(MState)}

\* C12: id allocation and reuse: the k-th resolution of a new user id in a
\* batch receives the k-th smallest id absent from internal_ids at the start
\* of the update (so never an id of internal_ids, and first the smallest free
\* id, freed by a deletion or never used); two different new user ids never
\* receive the same id, and user_ids ends up mapping a new user id to an id
\* handed to it.
C12_IdAllocation ==
    \A t \in txn :
        IsOkAddition(t) =>
            LET docs == t.update.documents
                ids == ResolvedIds(t)
                fresh == FreshPositions(t)
            IN  /\ \A i \in fresh :
                      /\ ids[i] = NthFree(internal_ids(MState),
                                          Cardinality({j \in fresh : j <= i}))
                      /\ ids[i] \notin internal_ids(MState)
                      /\ \E j \in fresh : /\ docs[j].id = docs[i].id
                                          /\ user_ids(t.writer)[docs[i].id] = ids[j]
                /\ \A i, j \in fresh : docs[i].id # docs[j].id => ids[i] # ids[j]

\* C12 witness: id 0 was freed by a deletion while id 1 is live, and the
\* addition of a new user id receives id 0.
C12_Witness ==
    \E t \in txn :
        /\ IsOkAddition(t)
        /\ internal_ids(MState) = {1}
        /\ \E i \in FreshPositions(t) : ResolvedIds(t)[i] = 0

\* C13: every finalize that returns an update id writes exactly one update
\* record, under an id that neither store of U holds, greater than every id
\* returned before and one more than the last one returned, also when earlier
\* updates were processed and moved to the results store.
C13_UpdateIdsMonotone ==
    [][returned' # returned =>
          LET update_id == returned'[Len(returned')]
          IN  /\ returned' = Append(returned, update_id)
              /\ update_id \notin DOMAIN updates \cup DOMAIN updates_results
              /\ DOMAIN updates' = DOMAIN updates \cup {update_id}
              /\ Remove(updates', {update_id}) = updates
              /\ updates_results' = updates_results
              /\ \A i \in DOMAIN returned : returned[i] < update_id
              /\ returned # <<>> => update_id = returned[Len(returned)] + 1]_vars

\* C13 witness: a finalize that returned an update id after every earlier
\* update was processed and moved to the results store.
C13_Witness ==
    \E t \in utxn :
        /\ t.result = "Ok"
        /\ Len(returned) >= 2
        /\ DOMAIN updates = {}
        /\ DOMAIN updates_results # {}

\* C14: a finalize that meets no storage error returns an update id and has
\* written its record, whatever the notifier did with the event; an update
\* whose event was dropped is in U (pending, or processed by the consumer).
C14_NotifierNeverFails ==
    /\ \A t \in utxn :
          t.fail = "none" => /\ t.result = "Ok"
                             /\ t.update_id \in DOMAIN t.writer.updates
    /\ \A update_id \in undelivered :
          update_id \in DOMAIN updates \cup DOMAIN updates_results

\* C14 witness: updates whose events were dropped, once because the channel
\* was full or the receiver gone, one of them processed by the consumer and
\* one finalized while the receiver is gone.
C14_Witness ==
    /\ \E update_id \in undelivered : update_id \in DOMAIN updates_results
    /\ \E t \in utxn : t.result = "Ok" /\ ~t.delivered /\ ~notifier.connected

\* ------------------------------------------------------------------ the writers of Main on their own

\* the fst maps a caller hands to put_user_ids, merge_user_ids and
\* remove_user_ids, and the stored ones
UserIdsMaps == UNION {[S -> 0..(MaxDocId + 1)] : S \in SUBSET UserIds}

\* a main store with or without a user ids map, with or without a schema
MainStores ==
    LET ids == {EmptyStore} \cup {Put(EmptyStore, USER_IDS_KEY, m) : m \in UserIdsMaps}
    IN  ids \cup {Put(m, SCHEMA_KEY, InitialSchema) : m \in ids}

MainInit ==
    /\ main \in MainStores
    /\ documents_fields = EmptyStore
    /\ documents_fields_counts = EmptyStore
    /\ postings_lists = EmptyStore
    /\ docs_words = EmptyStore
    /\ prefix_postings_lists_cache = EmptyStore
    /\ txn = {}
    /\ QueueInit

\* the write transaction of a writer of Main called on M: call names the
\* function and its argument, written is the state the call leaves
MainCall(call, written) == {[update |-> call, result |-> "Ok", writer |-> written]}

MergeUserIds ==
    \E new_ids \in UserIdsMaps, order \in UnionOrders :
        /\ txn = {}
        /\ txn' = MainCall([type |-> "merge_user_ids", new_ids |-> new_ids],
                           merge_user_ids(MState, new_ids, order))
        /\ UNCHANGED <<main, documents_fields, documents_fields_counts, postings_lists,
                       docs_words, prefix_postings_lists_cache>>
        /\ UNCHANGED qvars

PutUserIds ==
    \E ids \in UserIdsMaps :
        /\ txn = {}
        /\ txn' = MainCall([type |-> "put_user_ids", new_ids |-> ids],
                           put_user_ids(MState, ids))
        /\ UNCHANGED <<main, documents_fields, documents_fields_counts, postings_lists,
                       docs_words, prefix_postings_lists_cache>>
        /\ UNCHANGED qvars

RemoveUserIds ==
    \E ids \in UserIdsMaps :
        /\ txn = {}
        /\ txn' = MainCall([type |-> "remove_user_ids", new_ids |-> ids],
                           remove_user_ids(MState, ids))
        /\ UNCHANGED <<main, documents_fields, documents_fields_counts, postings_lists,
                       docs_words, prefix_postings_lists_cache>>
        /\ UNCHANGED qvars

Clear ==
    /\ txn = {}
    /\ txn' = MainCall([type |-> "clear", new_ids |-> EmptyStore], clear(MState))
    /\ UNCHANGED <<main, documents_fields, documents_fields_counts, postings_lists,
                   docs_words, prefix_postings_lists_cache>>
    /\ UNCHANGED qvars

DeleteSchema ==
    /\ txn = {}
    /\ txn' = MainCall([type |-> "delete_schema", new_ids |-> EmptyStore],
                       delete_schema(MState))
    /\ UNCHANGED <<main, documents_fields, documents_fields_counts, postings_lists,
                   docs_words, prefix_postings_lists_cache>>
    /\ UNCHANGED qvars

MainNext ==
    \/ MergeUserIds
    \/ PutUserIds
    \/ RemoveUserIds
    \/ Clear
    \/ DeleteSchema
    \/ Commit

MainSpec == MainInit /\ [][MainNext]_vars

\* C15: merge_user_ids(new_ids) stores the union of the stored map and
\* new_ids: the keys of both, a key of one map only with that map's value, a
\* key of both maps with the value of new_ids.
C15_MergeUserIds ==
    \A t \in txn :
        t.update.type = "merge_user_ids" =>
            user_ids(t.writer) = Overlay(user_ids(MState), t.update.new_ids)

\* C16: in every committed state the prefix cache is the function of the
\* committed words fst and postings lists: every successful addition, partial
\* addition and deletion recomputes it after its last write to them.
C16_PrefixCache ==
    prefix_postings_lists_cache = PrefixCacheOf(Words(MState), postings_lists)

\* C16 witness: a committed state after a deletion (id 0 is free again) whose
\* prefix cache holds the postings of a live document.
C16_Witness ==
    /\ txn = {}
    /\ internal_ids(MState) = {1}
    /\ \E p \in DOMAIN prefix_postings_lists_cache :
          \E m \in prefix_postings_lists_cache[p] : m.document_id = 1

\* the documents of the batch of t that resolved to the DocumentId d
ResolvedTo(t, d) == {j \in DOMAIN t.update.documents : ResolvedIds(t)[j] = d}

\* the last document of the batch of t, among those that resolved to d, that
\* wrote the field f
LastWriter(t, d, f) ==
    Max({j \in ResolvedTo(t, d) : f \in DOMAIN t.update.documents[j]})

\* C17: collapse of duplicates: when several documents of one batch resolve
\* to the same DocumentId, the document stored under it holds, for every
\* field one of them wrote, the value of the last of them that wrote it.
C17_CollapseDuplicates ==
    \A t \in txn :
        IsOkAddition(t) =>
            \A d \in from_dirty(ResolvedIds(t)) :
                Cardinality(ResolvedTo(t, d)) > 1 =>
                    \A f \in UNION {DOMAIN t.update.documents[j] : j \in ResolvedTo(t, d)} :
                        /\ f \in DOMAIN document_fields(t.writer, d)
                        /\ document_fields(t.writer, d)[f] =
                              t.update.documents[LastWriter(t, d, f)][f]

\* the documents of a batch that carry the user id u, their fields and the
\* words of their values
DocumentsOf(documents, u) == {documents[j] : j \in {i \in DOMAIN documents : documents[i].id = u}}
FieldsWritten(documents, u) == UNION {DOMAIN doc : doc \in DocumentsOf(documents, u)}
WordsWritten(documents, u) ==
    UNION {UNION {from_dirty(Tokens(doc[f])) : f \in DOMAIN doc} :
           doc \in DocumentsOf(documents, u)}

\* C18: prior versions are deleted before re-indexing: after a successful
\* full addition of a user id that was stored before, its DocumentId holds
\* nothing that comes only from the prior version: no stored field, field
\* count or ranked_map entry of a field the batch does not write, no posting
\* record or doc_words word the batch does not hold, and no word of words_fst
\* whose postings all belonged to the prior version and that the batch does
\* not hold.
C18_PriorVersionsDeleted ==
    \A t \in txn :
        (IsAddition(t) /\ t.result = "Ok") =>
            \A u \in BatchUserIds(t.update.documents) \cap DOMAIN user_ids(MState) :
                LET d == user_ids(MState)[u]
                    fields == FieldsWritten(t.update.documents, u)
                    words == WordsWritten(t.update.documents, u)
                IN  /\ \A k \in FieldsOf(t.writer.documents_fields, d) : k[2] \in fields
                    /\ \A k \in FieldsOf(t.writer.documents_fields_counts, d) : k[2] \in fields
                    /\ \A k \in FieldsOf(RankedMap(t.writer), d) : k[2] \in fields
                    /\ \A w \in DOMAIN t.writer.postings_lists :
                          \A m \in t.writer.postings_lists[w] :
                              m.document_id = d => (w \in words /\ m.attribute \in fields)
                    /\ d \in DOMAIN t.writer.docs_words => t.writer.docs_words[d] \subseteq words
                    /\ \A w \in Words(MState) \ words :
                          (\A m \in Postings(MState, w) : m.document_id = d)
                              => w \notin Words(t.writer)

\* the internal ids a deletion resolves to
ResolvedSet(t) == deletion_ids(MState, t.update.deletion).internal_ids

\* the records of a postings list that belong to no document of D
WithoutRecordsOf(matches, D) == {m \in matches : m.document_id \notin D}

\* C19: a successful deletion of the resolved set D leaves of every postings
\* list exactly the records of the documents outside D, deletes a word whose
\* list became empty from the postings lists and from words_fst and no other
\* word, and leaves the doc_words entry and the stored fields of every
\* document outside D as they were.
C19_DeletionFrame ==
    \A t \in txn :
        (IsDeletion(t) /\ t.result = "Ok") =>
            LET D == ResolvedSet(t)
                kept == {w \in DOMAIN postings_lists :
                            WithoutRecordsOf(postings_lists[w], D) # {}}
            IN  /\ DOMAIN t.writer.postings_lists = kept
                /\ \A w \in kept :
                      t.writer.postings_lists[w] = WithoutRecordsOf(postings_lists[w], D)
                /\ Words(t.writer) = Words(MState) \ (DOMAIN postings_lists \ kept)
                /\ \A d \in DOMAIN docs_words \ D :
                      /\ d \in DOMAIN t.writer.docs_words
                      /\ t.writer.docs_words[d] = docs_words[d]
                /\ \A k \in DOMAIN documents_fields :
                      k[1] \notin D => /\ k \in DOMAIN t.writer.documents_fields
                                       /\ t.writer.documents_fields[k] = documents_fields[k]
                /\ \A k \in DOMAIN t.writer.documents_fields : k \in DOMAIN documents_fields

\* C19 witness: a successful deletion of a document that shares a word with a
\* document outside D and owns all the records of another word.
C19_Witness ==
    \E t \in txn :
        /\ IsDeletion(t) /\ t.result = "Ok"
        /\ \E w \in DOMAIN postings_lists :
              /\ \E m \in postings_lists[w] : m.document_id \in ResolvedSet(t)
              /\ \E m \in postings_lists[w] : m.document_id \notin ResolvedSet(t)
        /\ \E w \in DOMAIN postings_lists :
              \A m \in postings_lists[w] : m.document_id \in ResolvedSet(t)

\* the documents an addition indexes, by DocumentId, and the schema it
\* indexes them with
BatchDocuments(t) ==
    resolution(MState, CHOOSE pk \in primary_key(CHOOSE s \in schema(MState) : TRUE) : TRUE,
               t.update.documents, IsPartialAddition(t)).documents_additions
BatchSchema(t) == CHOOSE s \in schema(t.writer) : TRUE

\* the delta of an addition: word -> the records of the batch's documents
Delta(t) == build(BatchSchema(t), BatchDocuments(t)).words_doc_indexes

\* C20: posting merge on addition: after a successful addition the postings
\* list of every word of the batch is the list stored before, without the
\* records of the prior versions of the batch's documents, united with the
\* batch's delta; the list of any other word keeps exactly the records of the
\* documents outside the batch; words_fst holds the words stored before that
\* still have a record, and the batch's words.
C20_PostingMerge ==
    \A t \in txn :
        IsOkAddition(t) =>
            LET D == DOMAIN BatchDocuments(t)
                delta == Delta(t)
                kept == {w \in DOMAIN postings_lists :
                            WithoutRecordsOf(postings_lists[w], D) # {}}
            IN  /\ DOMAIN t.writer.postings_lists = kept \cup DOMAIN delta
                /\ \A w \in DOMAIN delta :
                      t.writer.postings_lists[w] =
                          WithoutRecordsOf(Postings(MState, w), D) \cup delta[w]
                /\ \A w \in kept \ DOMAIN delta :
                      t.writer.postings_lists[w] = WithoutRecordsOf(postings_lists[w], D)
                /\ Words(t.writer) =
                      (Words(MState) \ (DOMAIN postings_lists \ kept)) \cup DOMAIN delta

\* C20 witness: an addition whose batch holds a word that a document outside
\* the batch has a record for, and replaces a document that had a record for
\* the same word.
C20_Witness ==
    \E t \in txn :
        /\ IsOkAddition(t)
        /\ \E w \in DOMAIN Delta(t) \cap DOMAIN postings_lists :
              /\ \E m \in postings_lists[w] : m.document_id \notin DOMAIN BatchDocuments(t)
              /\ \E m \in postings_lists[w] : m.document_id \in DOMAIN BatchDocuments(t)

\* C21: doc_words covers the postings: in every committed state, every record
\* of document d stored under word w has w in doc_words(d).
C21_DocWordsCoverPostings ==
    \A w \in DOMAIN postings_lists :
        \A m \in postings_lists[w] :
            /\ m.document_id \in DOMAIN docs_words
            /\ w \in docs_words[m.document_id]

\* C21 witness: a committed state where two documents have records and one
\* document has records under two words.
C21_Witness ==
    /\ txn = {}
    /\ \E w1, w2 \in DOMAIN postings_lists :
          /\ w1 # w2
          /\ \E m1 \in postings_lists[w1], m2 \in postings_lists[w2] :
                m1.document_id = m2.document_id
    /\ Cardinality({m.document_id : m \in UNION {postings_lists[w] : w \in DOMAIN postings_lists}}) > 1

\* the DocumentIds the user ids of a deletion resolve to
DeletedIds(t) == deletion_ids(MState, t.update.deletion).internal_ids

\* C22: ranked_map: in every committed state ranked_map holds an entry for
\* (d, f) only when f is a ranked field of the schema and d is in
\* internal_ids; and a successful deletion leaves no entry for a document it
\* deletes, whether or not the document had indexed words.
C22_RankedMap ==
    /\ \A k \in DOMAIN RankedMap(MState) :
          /\ schema(MState) # {}
          /\ \A s \in schema(MState) : is_ranked(s, k[2])
          /\ k[1] \in internal_ids(MState)
    /\ \A t \in txn :
          (IsDeletion(t) /\ t.result = "Ok") =>
              \A k \in DOMAIN RankedMap(t.writer) : k[1] \notin DeletedIds(t)

\* C22 witness: a successful deletion of a document that has a ranked_map
\* entry and no indexed word, while another document keeps its entry.
C22_Witness ==
    \E t \in txn :
        /\ IsDeletion(t) /\ t.result = "Ok"
        /\ \E k \in DOMAIN RankedMap(MState) :
              /\ k[1] \in DeletedIds(t)
              /\ k[1] \notin DOMAIN docs_words
        /\ RankedMap(t.writer) # EmptyStore

\* the user ids that occur more than once in a batch
RepeatedUserIds(documents) ==
    {documents[i].id : i \in {x \in DOMAIN documents :
                                 \E y \in DOMAIN documents : y # x /\ documents[y].id = documents[x].id}}

\* the DocumentIds the occurrences of user id u in the batch of t resolved to
IdsResolvedFor(t, u) ==
    {ResolvedIds(t)[i] : i \in {x \in DOMAIN t.update.documents : t.update.documents[x].id = u}}

\* C23: repeated UserId in a batch: a successful addition whose batch holds
\* the same UserId more than once resolves all its occurrences to one
\* DocumentId, adds at most one id to internal_ids for it, stores one document
\* for it, and changes number_of_documents by the number of new UserIds of the
\* batch (one if the UserId was new, zero if it existed).
C23_RepeatedUserId ==
    \A t \in txn :
        IsOkAddition(t) =>
            \A u \in RepeatedUserIds(t.update.documents) :
                LET ids == IdsResolvedFor(t, u)
                IN  /\ Cardinality(ids) = 1
                    /\ Cardinality(ids \ internal_ids(MState)) <= 1
                    /\ Cardinality({d \in ids : FieldsOf(t.writer.documents_fields, d) # {}}) = 1
                    /\ number_of_documents(t.writer) - number_of_documents(MState) =
                          Cardinality(BatchUserIds(t.update.documents) \ DOMAIN user_ids(MState))

\* C24: event only after write: a step that puts a NewUpdate event on the
\* channel is a finalize that wrote its update record to U; a finalize that
\* fails to write the record emits no event.
C24_EventOnlyAfterWrite ==
    [][notifier'.events > notifier.events =>
          \E t \in utxn' : t.result = "Ok" /\ t.update_id \in DOMAIN t.writer.updates]_vars

IsReindex(t) == t.update.type = "Settings"

\* document d is indexed in st: every word of its indexed fields has a record
\* of d, and every ranked field it stores has a ranked_map entry
IsIndexed(st, s, d) ==
    LET doc == document_fields(st, d)
    IN  /\ \A w \in WordsOfDocument(s, doc) :
              \E m \in Postings(st, w) : m.document_id = d
        /\ \A f \in DOMAIN doc \cap ranked(s) : <<d, f>> \in DOMAIN RankedMap(st)

\* C25: reindex: a successful reindex_all_documents leaves user_ids,
\* internal_ids and every stored document field unchanged, re-indexes every
\* document of internal_ids, and ends with number_of_documents equal to the
\* cardinality of internal_ids and with every word of words_fst having a
\* non-empty postings list and every postings list a word of words_fst.
C25_Reindex ==
    \A t \in txn :
        (IsReindex(t) /\ t.result = "Ok") =>
            /\ user_ids(t.writer) = user_ids(MState)
            /\ internal_ids(t.writer) = internal_ids(MState)
            /\ t.writer.documents_fields = documents_fields
            /\ \A d \in internal_ids(MState), s \in schema(t.writer) : IsIndexed(t.writer, s, d)
            /\ number_of_documents(t.writer) = Cardinality(internal_ids(t.writer))
            /\ \A w \in Words(t.writer) : Postings(t.writer, w) # {}
            /\ \A w \in DOMAIN t.writer.postings_lists :
                  t.writer.postings_lists[w] # {} /\ w \in Words(t.writer)

\* deleted_documents.len() of apply_documents_deletion(st, deletion)
deleted_documents_len(st, deletion) ==
    LET ids == deletion_ids(st, deletion).internal_ids
    IN  Cardinality(deleted_documents(st, documents_to_clear(st, ids, words_document_ids(st, ids))))

\* the deletion step of an addition of the batch documents to st
AdditionDeletion(st, documents, partial) ==
    prior_versions(st, CHOOSE ids \in documents_ids(
        resolution(st, CHOOSE pk \in primary_key(CHOOSE s \in schema(st) : TRUE) : TRUE,
                   documents, partial).documents_additions) : TRUE)

\* C26: no underflow: in every reachable state, whatever batch a deletion or
\* the deletion step of an addition is given, the number of documents it
\* counts as deleted is at most the stored number_of_documents, so that
\* old - deleted is never negative; no update panics on the subtraction and
\* no transaction has written a wrapped counter.
C26_NoUnderflow ==
    /\ \A t \in txn : t.result # "Panic"
    /\ \A deletion \in DeletionBatches :
          deleted_documents_len(MState, deletion) <= number_of_documents(MState)
    /\ \A documents \in AdditionBatches, partial \in BOOLEAN :
          (schema(MState) # {} /\ \A s \in schema(MState) : primary_key(s) # {}) =>
              deleted_documents_len(MState, AdditionDeletion(MState, documents, partial))
                  <= number_of_documents(MState)
    /\ number_of_documents(MState) >= 0
    /\ \A t \in txn : number_of_documents(t.writer) >= 0

\* C26 witness: after reindex_all_documents reset the counter below the
\* cardinality of internal_ids, a successful deletion counts as many deleted
\* documents as the counter holds.
C26_Witness ==
    \E t \in txn :
        /\ IsDeletion(t) /\ t.result = "Ok"
        /\ number_of_documents(MState) < Cardinality(internal_ids(MState))
        /\ deleted_documents_len(MState, t.update.deletion) > 0
        /\ deleted_documents_len(MState, t.update.deletion) = number_of_documents(MState)
        /\ number_of_documents(t.writer) = 0

====
